---- MODULE Spec2Model ----
(***************************************************************************)
(* The lexer of viper (src/src/lexer/lexer.rs) as a state machine.         *)
(*                                                                         *)
(* A character is a string: an ASCII character is the one-character string *)
(* itself, a character outside ASCII is named by its code point            *)
(* ("U+00E9").  A Rust String is a sequence of characters.  The state is   *)
(* the Lexer struct, the local vector of Lexer::tokenise, and what the     *)
(* call has come to: still running, returned Ok, returned Err, or          *)
(* panicked.  One step is one iteration of the loop of Lexer::tokenise,    *)
(* i.e. one call of Lexer::get_token and what tokenise does with it.       *)
(***************************************************************************)
EXTENDS Integers, Sequences, FiniteSets, TLC

VARIABLES lexer, tokens, outcome, result

vars == <<lexer, tokens, outcome, result>>

(***************************************************************************)
(* Characters                                                              *)
(***************************************************************************)
None == "<none>"

DigitChars == {"0", "1", "2", "3", "4", "5", "6", "7", "8", "9"}

LowerChars ==
    {"a", "b", "c", "d", "e", "f", "g", "h", "i", "j", "k", "l", "m",
     "n", "o", "p", "q", "r", "s", "t", "u", "v", "w", "x", "y", "z"}

UpperChars ==
    {"A", "B", "C", "D", "E", "F", "G", "H", "I", "J", "K", "L", "M",
     "N", "O", "P", "Q", "R", "S", "T", "U", "V", "W", "X", "Y", "Z"}

\* char::len_utf8 for the characters the model names: the named code points
\* lie in U+0080..U+07FF (two bytes) and U+0800..U+FFFF (three bytes).
Utf8Len(c) ==
    CASE c = "U+00E9" -> 2
      [] c = "U+20AC" -> 3
      [] OTHER -> 1

RECURSIVE ByteLen(_)
\* String::len: the length in bytes.
ByteLen(s) == IF s = <<>> THEN 0 ELSE Utf8Len(Head(s)) + ByteLen(Tail(s))

IsAsciiDigit(c) == c \in DigitChars

IsAsciiLetter(c) == c \in LowerChars \cup UpperChars

(***************************************************************************)
(* Lexer::new: str::lines splits at "\n", drops the terminator and a "\r"  *)
(* right before it, and yields no last line for a source ending in "\n".   *)
(***************************************************************************)
StripCr(l) ==
    IF l # <<>> /\ l[Len(l)] = "\r" THEN SubSeq(l, 1, Len(l) - 1) ELSE l

RECURSIVE LinesFrom(_, _)
LinesFrom(s, cur) ==
    IF s = <<>> THEN (IF cur = <<>> THEN <<>> ELSE <<cur>>)
    ELSE IF Head(s) = "\n" THEN <<StripCr(cur)>> \o LinesFrom(Tail(s), <<>>)
    ELSE LinesFrom(Tail(s), Append(cur, Head(s)))

\* Lines that drops the blank lines.
LinesNoBlank(s) ==
    LET all == LinesFrom(s, <<>>) IN
    SelectSeq(all, LAMBDA l : l # <<>>)

Lines(s) == LinesFrom(s, <<>>)

NewLexer(filename, source) ==
    [filename |-> filename, source |-> source, index |-> 0, line |-> 1,
     column |-> 1, lines |-> Lines(source)]

(***************************************************************************)
(* Cursor                                                                  *)
(***************************************************************************)
Peek(lx, offset) ==
    IF lx.index + offset < Len(lx.source)
    THEN lx.source[lx.index + offset + 1]
    ELSE None

Advance(lx) ==
    IF Peek(lx, 0) # None
    THEN [lx EXCEPT !.index = @ + 1, !.column = @ + 1]
    ELSE lx

RECURSIVE SkipWhitespaceNoCr(_)
\* SkipWhitespace without '\r' in its first arm.
SkipWhitespaceNoCr(lx) ==
    LET c == Peek(lx, 0) IN
    IF c = None THEN lx
    ELSE IF c \in {" ", "\t"} THEN SkipWhitespaceNoCr(Advance(lx))
    ELSE IF c = "\n"
         THEN SkipWhitespaceNoCr([Advance(lx) EXCEPT !.line = @ + 1, !.column = 1])
    ELSE lx

RECURSIVE SkipWhitespace(_)
SkipWhitespace(lx) ==
    LET c == Peek(lx, 0) IN
    IF c = None THEN lx
    ELSE IF c \in {" ", "\t", "\r"} THEN SkipWhitespace(Advance(lx))
    ELSE IF c = "\n"
         THEN SkipWhitespace([Advance(lx) EXCEPT !.line = @ + 1, !.column = 1])
    ELSE lx

IsEnd(lx) == lx.index >= ByteLen(lx.source)

BoundaryChars ==
    {" ", "\t", "\r", "\n", "(", ")", "{", "}", "=", "+", "-", "*", "/",
     "%", "^", ",", ".", "!", ">", "<", "&", "|"}

IsBoundary(lx) ==
    LET c == Peek(lx, 0) IN
    IF c = None THEN TRUE ELSE c \in BoundaryChars

(***************************************************************************)
(* Results: Ok(token) with the lexer as the call left it, Err(error), or a *)
(* panic (an unwrap of None or of a parse error, an index out of bounds).  *)
(***************************************************************************)
Ok(lx, token) == [tag |-> "Ok", lx |-> lx, token |-> token]

Panic(lx, cause) == [tag |-> "Panic", lx |-> lx, cause |-> cause]

Message(text, c) == [text |-> text, ch |-> c]

Error(lx, message) ==
    IF lx.line - 1 < Len(lx.lines)
    THEN [tag |-> "Err", lx |-> lx,
          error |-> [line |-> lx.line, column |-> lx.column,
                     index |-> lx.index, filename |-> lx.filename,
                     message |-> message,
                     line_context |-> lx.lines[lx.line]]]
    ELSE Panic(lx, "index out of bounds")

TokenType(kind, value) == [kind |-> kind, value |-> value]

MakeToken(lx, token_type, length) ==
    [token_type |-> token_type, line |-> lx.line, column |-> lx.column,
     index |-> lx.index, filename |-> lx.filename, length |-> length]

(***************************************************************************)
(* Numeric payloads.  An i64 is its sign and the decimal digits of its     *)
(* magnitude without leading zeros, so that the whole 64-bit range is      *)
(* represented exactly; an f64 is its sign, the digits of its integer part *)
(* without leading zeros and of its fraction without trailing zeros (exact *)
(* for the literals of up to 15 significant digits).                       *)
(***************************************************************************)
DigitVal(c) ==
    CASE c = "0" -> 0 [] c = "1" -> 1 [] c = "2" -> 2 [] c = "3" -> 3
      [] c = "4" -> 4 [] c = "5" -> 5 [] c = "6" -> 6 [] c = "7" -> 7
      [] c = "8" -> 8 [] c = "9" -> 9

RECURSIVE StripLeadingZeros(_)
StripLeadingZeros(d) ==
    IF Len(d) > 1 /\ Head(d) = "0" THEN StripLeadingZeros(Tail(d)) ELSE d

RECURSIVE StripTrailingZeros(_)
StripTrailingZeros(d) ==
    IF d # <<>> /\ d[Len(d)] = "0"
    THEN StripTrailingZeros(SubSeq(d, 1, Len(d) - 1))
    ELSE d

RECURSIVE DigitsGreater(_, _)
\* a > b for two digit strings of the same length.
DigitsGreater(a, b) ==
    IF a = <<>> THEN FALSE
    ELSE IF DigitVal(Head(a)) # DigitVal(Head(b))
         THEN DigitVal(Head(a)) > DigitVal(Head(b))
    ELSE DigitsGreater(Tail(a), Tail(b))

\* i64::MAX, 9223372036854775807.
I64MaxDigits ==
    <<"9", "2", "2", "3", "3", "7", "2", "0", "3", "6", "8", "5", "4", "7",
      "7", "5", "8", "0", "7">>

\* str::parse::<i64> of a digit run: Err on the empty string and on a value
\* above i64::MAX.
ParseI64(number) ==
    LET mag == StripLeadingZeros(number) IN
    IF number = <<>> THEN [ok |-> FALSE, cause |-> "ParseIntError: Empty"]
    ELSE IF \/ Len(mag) > Len(I64MaxDigits)
            \/ Len(mag) = Len(I64MaxDigits) /\ DigitsGreater(mag, I64MaxDigits)
         THEN [ok |-> FALSE, cause |-> "ParseIntError: PosOverflow"]
    ELSE [ok |-> TRUE, value |-> [neg |-> FALSE, mag |-> mag]]

RECURSIVE SplitAtDot(_, _)
SplitAtDot(number, int) ==
    IF number = <<>> THEN <<int, <<>>>>
    ELSE IF Head(number) = "." THEN <<int, Tail(number)>>
    ELSE SplitAtDot(Tail(number), Append(int, Head(number)))

\* str::parse::<f64> of digits '.' digits: never an error.
ParseF64(number) ==
    LET parts == SplitAtDot(number, <<>>) IN
    [ok |-> TRUE,
     value |-> [neg |-> FALSE, int |-> StripLeadingZeros(parts[1]),
                frac |-> StripTrailingZeros(parts[2])]]

\* -i on an i64 that is >= 0.
NegInt(i) == IF i.mag = <<"0">> THEN i ELSE [i EXCEPT !.neg = ~@]

\* -f on an f64: the sign bit flips.
NegFloat(f) == [f EXCEPT !.neg = ~@]

(***************************************************************************)
(* Lexer::get_number                                                       *)
(***************************************************************************)
RECURSIVE NumberLoopNoRange(_, _, _)
\* NumberLoop without the lookahead for a second '.'.
NumberLoopNoRange(lx, number, is_float) ==
    LET c == Peek(lx, 0)
        stop == [lx |-> lx, number |-> number, is_float |-> is_float,
                 second_point |-> FALSE]
    IN
    IF c = None THEN stop
    ELSE IF IsAsciiDigit(c)
         THEN NumberLoopNoRange(Advance(lx), Append(number, c), is_float)
    ELSE IF c = "."
         THEN IF is_float THEN [stop EXCEPT !.second_point = TRUE]
              ELSE NumberLoopNoRange(Advance(lx), Append(number, c), TRUE)
    ELSE stop

RECURSIVE NumberLoop(_, _, _)
NumberLoop(lx, number, is_float) ==
    LET c == Peek(lx, 0)
        stop == [lx |-> lx, number |-> number, is_float |-> is_float,
                 second_point |-> FALSE]
    IN
    IF c = None THEN stop
    ELSE IF IsAsciiDigit(c)
         THEN NumberLoop(Advance(lx), Append(number, c), is_float)
    ELSE IF c = "."
         THEN IF Peek(lx, 1) # None /\ Peek(lx, 1) = "." THEN stop
              ELSE IF is_float THEN [stop EXCEPT !.second_point = TRUE]
              ELSE NumberLoop(Advance(lx), Append(number, c), TRUE)
    ELSE stop

GetNumber(lx0) ==
    LET l == NumberLoop(lx0, <<>>, FALSE)
        lx == l.lx
    IN
    IF l.second_point
    THEN Error(lx, Message("Illegal second decimal point in float literal: '.'", ""))
    ELSE IF ~IsBoundary(lx)
         THEN Error(lx, Message("Unexpected character in numeric literal: ", Peek(lx, 0)))
    ELSE IF l.is_float
         THEN LET p == ParseF64(l.number) IN
              IF p.ok
              THEN Ok(lx, MakeToken(lx, TokenType("Float", p.value), Len(l.number)))
              ELSE Panic(lx, p.cause)
    ELSE LET p == ParseI64(l.number) IN
         IF p.ok
         THEN Ok(lx, MakeToken(lx, TokenType("Int", p.value), Len(l.number)))
         ELSE Panic(lx, p.cause)

(***************************************************************************)
(* Lexer::get_ident                                                        *)
(***************************************************************************)
RECURSIVE IdentLoop(_, _)
IdentLoop(lx, ident) ==
    LET c == Peek(lx, 0) IN
    IF c = None THEN [lx |-> lx, ident |-> ident]
    ELSE IF IsAsciiLetter(c) \/ IsAsciiDigit(c) \/ c = "_"
         THEN IdentLoop(Advance(lx), Append(ident, c))
    ELSE [lx |-> lx, ident |-> ident]

\* Keyword without the "in" arm.
KeywordNoIn(ident) ==
    CASE ident = <<"i", "f">> -> <<TokenType("KWIf", <<>>), 2>>
      [] ident = <<"e", "l", "s", "e">> -> <<TokenType("KWElse", <<>>), 4>>
      [] ident = <<"f", "o", "r">> -> <<TokenType("KWFor", <<>>), 3>>
      [] ident = <<"r", "e", "t", "u", "r", "n">> -> <<TokenType("KWReturn", <<>>), 6>>
      [] ident = <<"b", "r", "e", "a", "k">> -> <<TokenType("KWBreak", <<>>), 5>>
      [] ident = <<"c", "o", "n", "t", "i", "n", "u", "e">> ->
             <<TokenType("KWContinue", <<>>), 8>>
      [] ident = <<"t", "r", "u", "e">> -> <<TokenType("Bool", TRUE), 4>>
      [] ident = <<"f", "a", "l", "s", "e">> -> <<TokenType("Bool", FALSE), 5>>
      [] OTHER -> <<TokenType("Ident", ident), ByteLen(ident)>>

Keyword(ident) ==
    CASE ident = <<"i", "f">> -> <<TokenType("KWIf", <<>>), 2>>
      [] ident = <<"e", "l", "s", "e">> -> <<TokenType("KWElse", <<>>), 4>>
      [] ident = <<"f", "o", "r">> -> <<TokenType("KWFor", <<>>), 3>>
      [] ident = <<"r", "e", "t", "u", "r", "n">> -> <<TokenType("KWReturn", <<>>), 6>>
      [] ident = <<"b", "r", "e", "a", "k">> -> <<TokenType("KWBreak", <<>>), 5>>
      [] ident = <<"c", "o", "n", "t", "i", "n", "u", "e">> ->
             <<TokenType("KWContinue", <<>>), 8>>
      [] ident = <<"i", "n">> -> <<TokenType("KWIn", <<>>), 2>>
      [] ident = <<"t", "r", "u", "e">> -> <<TokenType("Bool", TRUE), 4>>
      [] ident = <<"f", "a", "l", "s", "e">> -> <<TokenType("Bool", FALSE), 5>>
      [] OTHER -> <<TokenType("Ident", ident), ByteLen(ident)>>

GetIdent(lx0) ==
    LET l == IdentLoop(lx0, <<>>)
        lx == l.lx
    IN
    IF ~IsBoundary(lx)
    THEN Error(lx, Message("Unexpected character in identifier: ", Peek(lx, 0)))
    ELSE LET k == Keyword(l.ident) IN Ok(lx, MakeToken(lx, k[1], k[2]))

(***************************************************************************)
(* Lexer::get_single and Lexer::get_multi                                  *)
(***************************************************************************)
SingleKind(c) ==
    CASE c = "+" -> "OpAdd" [] c = "-" -> "OpSub" [] c = "*" -> "OpMul"
      [] c = "/" -> "OpDiv" [] c = "%" -> "OpMod" [] c = "," -> "Comma"
      [] c = "." -> "Dot" [] c = "!" -> "OpNot" [] c = "=" -> "OpAssign"
      [] c = "<" -> "OpLt" [] c = ">" -> "OpGt" [] c = "(" -> "LParen"
      [] c = ")" -> "RParen" [] c = "{" -> "LBrace" [] c = "}" -> "RBrace"
      [] OTHER -> None

GetSingle(lx0) ==
    LET c == Peek(lx0, 0)
        lx == Advance(lx0)
    IN
    IF c = None THEN Panic(lx0, "unwrap on None")
    ELSE IF SingleKind(c) # None
         THEN Ok(lx, MakeToken(lx, TokenType(SingleKind(c), <<>>), 1))
    ELSE Error(lx, Message("Unexpected character: ", c))

\* MultiKind without the ('=', '>') arm.
MultiKindNoArrow(c, next_c) ==
    CASE c = "*" /\ next_c = "*" -> "OpPow"
      [] c = "=" /\ next_c = "=" -> "OpEq"
      [] c = ">" /\ next_c = "=" -> "OpGe"
      [] c = "<" /\ next_c = "=" -> "OpLe"
      [] c = "!" /\ next_c = "=" -> "OpNe"
      [] c = "&" /\ next_c = "&" -> "OpAnd"
      [] c = "|" /\ next_c = "|" -> "OpOr"
      [] c = "." /\ next_c = "." -> "Range"
      [] OTHER -> None

MultiKind(c, next_c) ==
    CASE c = "*" /\ next_c = "*" -> "OpPow"
      [] c = "=" /\ next_c = "=" -> "OpEq"
      [] c = ">" /\ next_c = "=" -> "OpGe"
      [] c = "<" /\ next_c = "=" -> "OpLe"
      [] c = "!" /\ next_c = "=" -> "OpNe"
      [] c = "&" /\ next_c = "&" -> "OpAnd"
      [] c = "|" /\ next_c = "|" -> "OpOr"
      [] c = "=" /\ next_c = ">" -> "Arrow"
      [] c = "." /\ next_c = "." -> "Range"
      [] OTHER -> None

\* GetMulti with speculative consumption: the first character is consumed
\* before the lookahead, and stays consumed when no entry matches.
GetMultiSpeculative(lx0) ==
    LET c == Peek(lx0, 0)
        next == Peek(lx0, 1)
    IN
    IF c = None THEN Panic(lx0, "unwrap on None")
    ELSE IF next = None THEN GetSingle(lx0)
    ELSE IF MultiKind(c, next) # None
         THEN LET lx == Advance(Advance(lx0)) IN
              Ok(lx, MakeToken(lx, TokenType(MultiKind(c, next), <<>>), 2))
    ELSE GetSingle(Advance(lx0))

GetMulti(lx0) ==
    LET c == Peek(lx0, 0)
        next == Peek(lx0, 1)
    IN
    IF c = None THEN Panic(lx0, "unwrap on None")
    ELSE IF next = None THEN GetSingle(lx0)
    ELSE IF MultiKind(c, next) # None
         THEN LET lx == Advance(Advance(lx0)) IN
              Ok(lx, MakeToken(lx, TokenType(MultiKind(c, next), <<>>), 2))
    ELSE GetSingle(lx0)

(***************************************************************************)
(* Lexer::get_string                                                       *)
(***************************************************************************)
Escape(c) ==
    CASE c = "n" -> "\n" [] c = "r" -> "\r" [] c = "t" -> "\t"
      [] c = "0" -> "U+0000" [] c = "'" -> "'" [] c = "\"" -> "\""
      [] c = "\\" -> "\\"
      [] OTHER -> None

RECURSIVE StringLoopClosedByEnd(_, _, _)
\* StringLoop taking the end of input for a closing quote.
StringLoopClosedByEnd(lx0, value, escape) ==
    LET c == Peek(lx0, 0)
        lx == Advance(lx0)
    IN
    IF c = None
    THEN Ok(lx, MakeToken(lx, TokenType("String", value), ByteLen(value) + 2))
    ELSE IF escape
         THEN IF Escape(c) # None
              THEN StringLoopClosedByEnd(lx, Append(value, Escape(c)), FALSE)
              ELSE Error(lx, Message("Invalid escape sequence: \\", c))
    ELSE IF c = "\\" THEN StringLoopClosedByEnd(lx, value, TRUE)
    ELSE IF c = "\""
         THEN Ok(lx, MakeToken(lx, TokenType("String", value), ByteLen(value) + 2))
    ELSE StringLoopClosedByEnd(lx, Append(value, c), FALSE)

RECURSIVE StringLoop(_, _, _)
StringLoop(lx0, value, escape) ==
    LET c == Peek(lx0, 0)
        lx == Advance(lx0)
    IN
    IF c = None THEN Error(lx, Message("Unterminated string literal", ""))
    ELSE IF escape
         THEN IF Escape(c) # None
              THEN StringLoop(lx, Append(value, Escape(c)), FALSE)
              ELSE Error(lx, Message("Invalid escape sequence: \\", c))
    ELSE IF c = "\\" THEN StringLoop(lx, value, TRUE)
    ELSE IF c = "\""
         THEN Ok(lx, MakeToken(lx, TokenType("String", value), ByteLen(value) + 2))
    ELSE StringLoop(lx, Append(value, c), FALSE)

GetString(lx0) == StringLoop(Advance(lx0), <<>>, FALSE)

(***************************************************************************)
(* Lexer::get_token                                                        *)
(***************************************************************************)
MultiChars ==
    {"+", "*", "/", "%", ",", ".", "!", "=", "<", ">", "&", "|", "(", ")",
     "{", "}"}

\* Negate that leaves an Int as it is.
NegateFloatOnly(token) ==
    CASE token.token_type.kind = "Float" ->
             [token EXCEPT !.token_type.value = NegFloat(@)]
      [] OTHER -> token

Negate(token) ==
    CASE token.token_type.kind = "Int" ->
             [token EXCEPT !.token_type.value = NegInt(@)]
      [] token.token_type.kind = "Float" ->
             [token EXCEPT !.token_type.value = NegFloat(@)]
      [] OTHER -> token

\* GetMinus that always emits Sub.
GetMinusAlwaysSub(lx) ==
    Ok(Advance(lx), MakeToken(Advance(lx), TokenType("OpSub", <<>>), 1))

GetMinus(lx) ==
    LET c == Peek(lx, 1) IN
    IF c # None /\ IsAsciiDigit(c)
    THEN LET r == GetNumber(Advance(lx)) IN
         IF r.tag = "Ok" THEN Ok(r.lx, Negate(r.token)) ELSE r
    ELSE Ok(Advance(lx), MakeToken(Advance(lx), TokenType("OpSub", <<>>), 1))

GetToken(lx0) ==
    LET lx == SkipWhitespace(lx0)
        c == Peek(lx, 0)
    IN
    IF IsEnd(lx) THEN Ok(lx, MakeToken(lx, TokenType("EOF", <<>>), 0))
    ELSE IF c = None THEN Panic(lx, "unwrap on None")
    ELSE IF c = "-" THEN GetMinus(lx)
    ELSE IF c \in MultiChars THEN GetMulti(lx)
    ELSE IF IsAsciiDigit(c) THEN GetNumber(lx)
    ELSE IF IsAsciiLetter(c) THEN GetIdent(lx)
    ELSE IF c = "\"" THEN GetString(lx)
    ELSE Error(lx, Message("Unexpected character: ", c))

(***************************************************************************)
(* The sources the lexer is run on: every string of up to MaxLen           *)
(* characters of Alphabet, and the longer sources of Samples.              *)
(***************************************************************************)
MaxLen == 4

Alphabet ==
    {"-", "0", "1", ".", "=", "a", "\"", "\\", "\n", " ", "^", "U+00E9"}

Samples ==
    { \* integer literals at the ends of the 64-bit range
      I64MaxDigits,
      <<"-">> \o I64MaxDigits,
      <<"9", "2", "2", "3", "3", "7", "2", "0", "3", "6", "8", "5", "4", "7",
        "7", "5", "8", "0", "8">>,
      <<"-", "9", "2", "2", "3", "3", "7", "2", "0", "3", "6", "8", "5", "4",
        "7", "7", "5", "8", "0", "8">>,
      <<"0", "0">> \o I64MaxDigits,
      <<"1", "0", "0", "0", "0", "0", "0", "0", "0", "0", "0", "0", "0", "0",
        "0", "0", "0", "0", "0", "0">>,
      <<"-", "0", "0", "4", "2">>, <<"9", "0", "7", " ", "-", "3", "3">>,
      \* the two-character operators, and operator runs
      <<"*", "*">>, <<"=", "=">>, <<">", "=">>, <<"<", "=">>, <<"!", "=">>,
      <<"&", "&">>, <<"|", "|">>, <<"=", ">">>, <<".", ".">>,
      <<"=", "=", "=">>, <<"=", "=", "=", "=", "=">>, <<"*", "*", "*">>,
      <<"&", "&", "&">>, <<"|", "|", "|">>, <<"&">>, <<"|">>, <<"a", "&", "b">>,
      <<"<", "=", ">">>, <<"!", "!", "=", "=">>, <<".", ".", ".", "=", ">">>,
      <<"(", "a", "+", "b", ")", "*", "{", "c", "/", "d", "}", "%", "e", ",",
        "f">>,
      <<"a", "<", "b", ">", "c", "-", "d">>,
      \* numbers
      <<"1", "2", "a">>, <<"1", ".", "2", ".", "3">>, <<"1", "2", "\"">>,
      <<"1", ".", ".", "5">>, <<"1", ".", "5", ".", ".", "2">>,
      <<"a", "-", "5">>, <<"a", " ", "-", " ", "5">>, <<"1", "2", ";">>,
      <<"3", ".", "1", "4", "0">>, <<"-", "0", ".", "5", "0">>,
      \* identifiers and keywords
      <<"r", "e", "t", "u", "r", "n">>,
      <<"r", "e", "t", "u", "r", "n", "i", "n", "g">>,
      <<"R", "e", "t", "u", "r", "n">>, <<"i", "f", "_">>, <<"i", "f">>,
      <<"e", "l", "s", "e">>, <<"f", "o", "r">>, <<"b", "r", "e", "a", "k">>,
      <<"c", "o", "n", "t", "i", "n", "u", "e">>, <<"i", "n">>,
      <<"t", "r", "u", "e">>, <<"f", "a", "l", "s", "e">>,
      <<"x", "1", "_", "y">>, <<"a", "b", "\"">>, <<"a", "b", ";">>, <<"_">>,
      <<";">>,
      \* strings
      <<"\"", "a", "\\", "n", "b", "\"">>,
      <<"\"", "\\", "n", "\\", "r", "\\", "t", "\\", "0", "\\", "'", "\\",
        "\"", "\\", "\\", "\"">>,
      <<"\"", "a", "b", "c">>, <<"\"", "a", "\\", "q", "\"">>,
      <<"\"", "a", "\\">>, <<"\"", "U+20AC", "\"", " ", "a">>,
      <<"\"", "a", "\n", "b", "\"", " ", ";">>,
      <<"a", "\n", "\"", "b", "\n", "c", "\"", "\n", "1", "x">>,
      \* whitespace
      <<" ", "\t", "\r", "\n">>, <<"\r", "\n", "\r", "\n">>, <<"\t", "\t">>,
      <<"a", "\r", "\n", "b", " ", ";">>,
      \* keywords next to other text
      <<"i", "f", " ", "x">>, <<"i", "f", "f">>, <<"I", "f">>,
      <<"t", "r", "u", "e", "(">>, <<"i", "n", "_">>, <<"f", "o", "r", "1">>,
      <<"e", "l", "s", "e", "\n", "i", "n">>, <<"T", "r", "u", "e">>,
      \* minus signs
      <<"-", "1", "a">>, <<"-", "1", ".", "5">>, <<"x", "-", "-", "3">>,
      <<"-", "-">>, <<"1", "-", "2">>, <<"(", "-", ")">>, <<"-", "x">>,
      \* ranges
      <<"1", ".", "5", ".", ".">>, <<"0", ".", ".", ".", "1">>,
      <<"1", ".", ".", ".", ".", "2">>, <<"-", "2", ".", ".", "-", "1">>,
      \* unexpected characters and errors on later lines
      <<"&", "a">>, <<"a", " ", "|", " ", "b">>, <<"\n", "\n", "_">>,
      <<"a", "\n", "\n", ";", "\n">>, <<"\n", "\"", "a", "\n">>,
      <<"\r", "\n", "&">>, <<"a", "\n", "\n", "\n">> }

Filenames == {"main.vi"}

Sources == UNION {[1..n -> Alphabet] : n \in 0..MaxLen} \cup Samples

(***************************************************************************)
(* Lexer::tokenise on a Lexer fresh from Lexer::new                        *)
(***************************************************************************)
Init ==
    /\ \E f \in Filenames, s \in Sources : lexer = NewLexer(f, s)
    /\ tokens = <<>>
    /\ outcome = "running"
    /\ result = <<>>

\* get_token returned Ok with a token that is not EOF: it is pushed.
TokenisePush ==
    /\ outcome = "running"
    /\ LET r == GetToken(lexer) IN
       /\ r.tag = "Ok"
       /\ r.token.token_type.kind # "EOF"
       /\ lexer' = r.lx
       /\ tokens' = Append(tokens, r.token)
    /\ UNCHANGED <<outcome, result>>

\* TokeniseBreak pushing the EOF token before it breaks.
TokeniseBreakPushEof ==
    /\ outcome = "running"
    /\ LET r == GetToken(lexer) IN
       /\ r.tag = "Ok"
       /\ r.token.token_type.kind = "EOF"
       /\ lexer' = r.lx
       /\ result' = Append(tokens, r.token)
    /\ outcome' = "ok"
    /\ tokens' = <<>>

\* get_token returned Ok with EOF: break, and Ok(tokens) is returned.
TokeniseBreak ==
    /\ outcome = "running"
    /\ LET r == GetToken(lexer) IN
       /\ r.tag = "Ok"
       /\ r.token.token_type.kind = "EOF"
       /\ lexer' = r.lx
    /\ outcome' = "ok"
    /\ result' = tokens
    /\ tokens' = <<>>

\* TokeniseErr returning the tokens scanned so far instead of the error.
TokeniseErrPartial ==
    /\ outcome = "running"
    /\ LET r == GetToken(lexer) IN
       /\ r.tag = "Err"
       /\ lexer' = r.lx
    /\ outcome' = "ok"
    /\ result' = tokens
    /\ tokens' = <<>>

\* get_token returned Err: `?` returns it, the vector is dropped.
TokeniseErr ==
    /\ outcome = "running"
    /\ LET r == GetToken(lexer) IN
       /\ r.tag = "Err"
       /\ lexer' = r.lx
       /\ result' = r.error
    /\ outcome' = "err"
    /\ tokens' = <<>>

\* get_token panicked: the call never returns.
TokenisePanic ==
    /\ outcome = "running"
    /\ LET r == GetToken(lexer) IN
       /\ r.tag = "Panic"
       /\ lexer' = r.lx
       /\ result' = r.cause
    /\ outcome' = "panic"
    /\ tokens' = <<>>

Next == TokenisePush \/ TokeniseBreak \/ TokeniseErr \/ TokenisePanic

Spec == Init /\ [][Next]_vars

(***************************************************************************)
(* What the claims speak of                                                *)
(***************************************************************************)
source == lexer.source

Fresh == NewLexer(lexer.filename, lexer.source)

RECURSIVE Calls(_, _)
\* The get_token calls made from lx on: the first result that is not a
\* pushed token, and the number of tokens returned before it.
Calls(lx, n) ==
    LET r == GetToken(lx) IN
    IF r.tag = "Ok" /\ r.token.token_type.kind # "EOF"
    THEN Calls(r.lx, n + 1)
    ELSE [last |-> r, before |-> n]

IsError(v) == DOMAIN v = {"line", "column", "index", "filename", "message", "line_context"}

\* C1: tokenisation is all-or-nothing.  Whenever some get_token call on the
\* source returns an error, the finished tokenise call has returned exactly
\* that first error, no token scanned before it is exposed, and the cursor
\* stands where the error was built: nothing was scanned after it.
C1_AllOrNothing ==
    LET run == Calls(Fresh, 0) IN
    (outcome # "running" /\ run.last.tag = "Err") =>
        /\ outcome = "err"
        /\ IsError(result)
        /\ result = run.last.error
        /\ tokens = <<>>
        /\ lexer.index = result.index

\* A failed call before whose error at least one token had been scanned.
C1_Witness ==
    /\ outcome = "err"
    /\ IsError(result)
    /\ Calls(Fresh, 0).before >= 1
    /\ tokens = <<>>

\* C2: a tokenise call ends with a token sequence or with one error, and
\* never aborts (the literals out of the 64-bit range, C3, set aside); at the
\* dispatch of get_token, is_end says whether the cursor is past the last
\* character.
C2_NeverAborts ==
    /\ outcome = "panic" => result = "ParseIntError: PosOverflow"
    /\ outcome = "running" =>
          LET lx == SkipWhitespace(lexer) IN
          IsEnd(lx) <=> (Peek(lx, 0) = None)

\* C3: a digit run above the 64-bit signed range is reported as an error
\* returned from tokenise, never as an abort of the process.
C3_OverflowIsError ==
    LET run == Calls(Fresh, 0) IN
    (outcome # "running" /\ run.last.tag = "Panic"
        /\ run.last.cause = "ParseIntError: PosOverflow") =>
        /\ outcome = "err"
        /\ IsError(result)

IsDigitRun(s) == s # <<>> /\ \A i \in 1..Len(s) : IsAsciiDigit(s[i])

InI64Range(d) ==
    LET mag == StripLeadingZeros(d) IN
    \/ Len(mag) < Len(I64MaxDigits)
    \/ Len(mag) = Len(I64MaxDigits) /\ ~DigitsGreater(mag, I64MaxDigits)

OneInt(neg, mag) ==
    /\ outcome = "ok"
    /\ Len(result) = 1
    /\ result[1].token_type.kind = "Int"
    /\ result[1].token_type.value = [neg |-> neg, mag |-> mag]

\* C4: the digits of an integer N of the 64-bit signed range tokenise to the
\* one token Int(N); '-' and then the digits of N tokenise to the one token
\* Int(-N), with no Sub token.
C4_IntegerLiteral ==
    /\ (IsDigitRun(source) /\ InI64Range(source)) =>
          /\ Len(tokens) <= 1
          /\ outcome # "running" => OneInt(FALSE, StripLeadingZeros(source))
    /\ (Len(source) >= 2 /\ source[1] = "-" /\ IsDigitRun(Tail(source))
           /\ InI64Range(Tail(source))) =>
          /\ Len(tokens) <= 1
          /\ \A i \in DOMAIN tokens : tokens[i].token_type.kind # "OpSub"
          /\ outcome # "running" =>
                LET mag == StripLeadingZeros(Tail(source)) IN
                OneInt(mag # <<"0">>, mag)

\* '-' and a run of digits with a value other than 0 has been tokenised.
C4_Witness ==
    /\ outcome = "ok"
    /\ Len(source) >= 2
    /\ source[1] = "-"
    /\ IsDigitRun(Tail(source))
    /\ Len(result) = 1
    /\ result[1].token_type.kind = "Int"
    /\ result[1].token_type.value.neg

\* The 1-based number of the line that holds the character position i
\* (i characters lie before it).
LineOfIndex(s, i) == 1 + Cardinality({k \in 1..i : k <= Len(s) /\ s[k] = "\n"})

\* The text of line n: from after the (n-1)th newline to before the next.
LineText(s, n) ==
    LET nl == {k \in 1..Len(s) : s[k] = "\n"}
        first == IF n = 1 THEN 1
                 ELSE 1 + CHOOSE k \in nl : Cardinality({j \in nl : j < k}) = n - 2
        last == IF \E k \in nl : k >= first
                THEN (CHOOSE k \in nl : k >= first /\ \A j \in nl : j >= first => k <= j) - 1
                ELSE Len(s)
    IN SubSeq(s, first, last)

\* C5: every error carries the number and the text of the source line that
\* holds the position of its index (judged where that position is a
\* character of the source).
C5_ErrorLine ==
    (outcome = "err" /\ result.index < Len(source)) =>
        /\ result.line = LineOfIndex(source, result.index)
        /\ result.line_context \in
               {LineText(source, result.line), StripCr(LineText(source, result.line))}

(***************************************************************************)
(* The operator tables of the specification                                *)
(***************************************************************************)
OperatorChars ==
    {"+", "*", "/", "%", ",", ".", "!", "=", "<", ">", "&", "|", "(", ")",
     "{", "}"}

TwoCharTable ==
    {<<"*", "*", "OpPow">>, <<"=", "=", "OpEq">>, <<">", "=", "OpGe">>,
     <<"<", "=", "OpLe">>, <<"!", "=", "OpNe">>, <<"&", "&", "OpAnd">>,
     <<"|", "|", "OpOr">>, <<"=", ">", "Arrow">>, <<".", ".", "Range">>}

SingleTable ==
    {<<"+", "OpAdd">>, <<"-", "OpSub">>, <<"*", "OpMul">>, <<"/", "OpDiv">>,
     <<"%", "OpMod">>, <<",", "Comma">>, <<".", "Dot">>, <<"!", "OpNot">>,
     <<"=", "OpAssign">>, <<"<", "OpLt">>, <<">", "OpGt">>,
     <<"(", "LParen">>, <<")", "RParen">>, <<"{", "LBrace">>,
     <<"}", "RBrace">>}

Pushed(kind, length) ==
    /\ outcome' = "running"
    /\ Len(tokens') = Len(tokens) + 1
    /\ SubSeq(tokens', 1, Len(tokens)) = tokens
    /\ tokens'[Len(tokens')].token_type.kind = kind
    /\ tokens'[Len(tokens')].length = length

Kinds(ts) == [i \in DOMAIN ts |-> ts[i].token_type.kind]

C6_Step ==
    LET lx == SkipWhitespace(lexer)
        c == Peek(lx, 0)
        n == Peek(lx, 1)
    IN
    (outcome = "running" /\ c \in OperatorChars) =>
        IF \E e \in TwoCharTable : e[1] = c /\ e[2] = n
        THEN /\ lexer'.index = lx.index + 2
             /\ \E e \in TwoCharTable : e[1] = c /\ e[2] = n /\ Pushed(e[3], 2)
        ELSE /\ lexer'.index = lx.index + 1
             /\ IF c \in {"&", "|"}
                THEN outcome' = "err" /\ result'.index = lx.index + 1
                ELSE \E e \in SingleTable : e[1] = c /\ Pushed(e[2], 1)

\* C6: operator scanning is greedy longest-match without speculative
\* consumption.  At an operator character that forms a two-character entry
\* with the next character, exactly two characters are consumed and that one
\* token is emitted; otherwise exactly one character is consumed; and "==="
\* yields Eq then Assign.
C6_GreedyOperators ==
    /\ [][C6_Step]_vars
    /\ [](source = <<"=", "=", "=">> /\ outcome # "running" =>
              outcome = "ok" /\ Kinds(result) = <<"OpEq", "OpAssign">>)

\* "===" has been tokenised: Eq ends at the second character, Assign at the
\* third.
C6_Witness ==
    /\ source = <<"=", "=", "=">>
    /\ outcome = "ok"
    /\ Len(result) = 2
    /\ result[1].index = 2
    /\ result[2].index = 3

\* C7: each two-character operator string alone yields exactly one token, of
\* its kind and of length 2: never two tokens, never an error.
C7_TwoCharAlone ==
    \A e \in TwoCharTable :
        source = <<e[1], e[2]>> =>
            /\ Len(tokens) <= 1
            /\ outcome \in {"running", "ok"}
            /\ \A i \in DOMAIN tokens :
                   tokens[i].token_type.kind = e[3] /\ tokens[i].length = 2
            /\ outcome = "ok" =>
                   /\ Len(result) = 1
                   /\ result[1].token_type.kind = e[3]
                   /\ result[1].length = 2

\* "=>" alone has been tokenised.
C7_Witness ==
    /\ source = <<"=", ">">>
    /\ outcome = "ok"
    /\ Kinds(result) = <<"Arrow">>

(***************************************************************************)
(* String literals as the specification reads them                         *)
(***************************************************************************)
EscapeTable ==
    {<<"n", "\n">>, <<"r", "\r">>, <<"t", "\t">>, <<"0", "U+0000">>,
     <<"'", "'">>, <<"\"", "\"">>, <<"\\", "\\">>}

RECURSIVE Literal(_, _, _)
\* The literal whose first character after the opening quote is s[i]: how
\* it ends (closed, at a bad escape, with the input exhausted) and its value.
Literal(s, i, value) ==
    IF i > Len(s) THEN [end |-> "exhausted", value |-> value, ch |-> None]
    ELSE IF s[i] = "\\"
         THEN IF i + 1 > Len(s)
              THEN [end |-> "exhausted", value |-> value, ch |-> None]
              ELSE IF \E e \in EscapeTable : e[1] = s[i + 1]
                   THEN Literal(s, i + 2,
                            Append(value, (CHOOSE e \in EscapeTable : e[1] = s[i + 1])[2]))
              ELSE [end |-> "bad_escape", value |-> value, ch |-> s[i + 1]]
    ELSE IF s[i] = "\"" THEN [end |-> "closed", value |-> value, ch |-> None]
    ELSE Literal(s, i + 1, Append(value, s[i]))

C8_Step ==
    LET lx == SkipWhitespace(lexer)
        lit == Literal(source, lx.index + 2, <<>>)
    IN
    (outcome = "running" /\ Peek(lx, 0) = "\"") =>
        /\ lit.end = "closed" =>
              /\ Pushed("String", Len(lit.value) + 2)
              /\ tokens'[Len(tokens')].token_type.value = lit.value
        /\ lit.end = "bad_escape" =>
              /\ outcome' = "err"
              /\ result'.message = Message("Invalid escape sequence: \\", lit.ch)

\* C8: a terminated string literal yields a String token whose value is the
\* text between the quotes with each escape replaced by its character, and
\* whose length is the number of characters of that value plus 2; any other
\* character after a backslash fails with the invalid-escape error naming it.
C8_StringToken == [][C8_Step]_vars

(***************************************************************************)
(* Literal runs as the specification reads them                            *)
(***************************************************************************)
\* Whitespace, an operator or punctuation character, or the end of input.
SpecBoundary(c) ==
    c = None \/ c \in {" ", "\t", "\r", "\n"} \/ c \in OperatorChars \cup {"-"}

CharAt(s, i) == IF i <= Len(s) THEN s[i] ELSE None

RECURSIVE NumberEnd(_, _, _)
\* Where the numeric literal that is being read at s[i] ends: at a second
\* decimal point, or before the character s[at] (or the end of input).
NumberEnd(s, i, points) ==
    IF i > Len(s) THEN [second_point |-> FALSE, at |-> i]
    ELSE IF IsAsciiDigit(s[i]) THEN NumberEnd(s, i + 1, points)
    ELSE IF s[i] = "." /\ CharAt(s, i + 1) # "."
         THEN IF points = 1 THEN [second_point |-> TRUE, at |-> i]
              ELSE NumberEnd(s, i + 1, 1)
    ELSE [second_point |-> FALSE, at |-> i]

RECURSIVE IdentEnd(_, _)
IdentEnd(s, i) ==
    IF i <= Len(s) /\ (IsAsciiLetter(s[i]) \/ IsAsciiDigit(s[i]) \/ s[i] = "_")
    THEN IdentEnd(s, i + 1)
    ELSE i

C9_Step ==
    LET lx == SkipWhitespace(lexer)
        c == Peek(lx, 0)
        first == IF c = "-" THEN lx.index + 2 ELSE lx.index + 1
        num == NumberEnd(source, first, 0)
        id == IdentEnd(source, first)
    IN
    /\ (outcome = "running" /\ IsAsciiDigit(CharAt(source, first))
           /\ (c = "-" \/ IsAsciiDigit(c))) =>
          /\ num.second_point =>
                /\ outcome' = "err"
                /\ result'.message =
                       Message("Illegal second decimal point in float literal: '.'", "")
          /\ (~num.second_point /\ ~SpecBoundary(CharAt(source, num.at))) =>
                /\ outcome' = "err"
                /\ result'.message =
                       Message("Unexpected character in numeric literal: ",
                               CharAt(source, num.at))
    /\ (outcome = "running" /\ IsAsciiLetter(c)
           /\ ~SpecBoundary(CharAt(source, id))) =>
          /\ outcome' = "err"
          /\ result'.message =
                 Message("Unexpected character in identifier: ", CharAt(source, id))

\* C9: a literal run must end on a boundary.  A digit run followed by a
\* character that is not whitespace, an operator or punctuation character or
\* the end of input fails with the invalid-numeric-suffix error, an
\* identifier run followed by such a character with the
\* invalid-identifier-suffix error, a second decimal point that no '.'
\* follows with the malformed-float error; no truncated token is returned.
C9_LiteralBoundary == [][C9_Step]_vars

C10_Step ==
    LET lx == SkipWhitespace(lexer) IN
    (outcome = "running" /\ Peek(lx, 0) = "\""
        /\ Literal(source, lx.index + 2, <<>>).end = "exhausted") =>
        /\ outcome' = "err"
        /\ IsError(result')
        /\ result'.message = Message("Unterminated string literal", "")
        /\ tokens' = <<>>

\* C10: when the input is exhausted after an opening quote and before the
\* matching unescaped closing quote (also right after a backslash), tokenise
\* fails with the unterminated-string error and returns no tokens.
C10_UnterminatedString == [][C10_Step]_vars

\* The input ended right after a backslash inside a string that follows
\* another token, and tokenise has failed with the unterminated-string error.
C10_Witness ==
    /\ outcome = "err"
    /\ result.message = Message("Unterminated string literal", "")
    /\ source[Len(source)] = "\\"
    /\ Calls(Fresh, 0).before >= 1

(***************************************************************************)
(* Identifiers and keywords as the specification reads them                *)
(***************************************************************************)
KeywordTable ==
    {<<<<"i", "f">>, "KWIf", <<>>>>,
     <<<<"e", "l", "s", "e">>, "KWElse", <<>>>>,
     <<<<"f", "o", "r">>, "KWFor", <<>>>>,
     <<<<"r", "e", "t", "u", "r", "n">>, "KWReturn", <<>>>>,
     <<<<"b", "r", "e", "a", "k">>, "KWBreak", <<>>>>,
     <<<<"c", "o", "n", "t", "i", "n", "u", "e">>, "KWContinue", <<>>>>,
     <<<<"i", "n">>, "KWIn", <<>>>>,
     <<<<"t", "r", "u", "e">>, "Bool", TRUE>>,
     <<<<"f", "a", "l", "s", "e">>, "Bool", FALSE>>}

LastToken == tokens'[Len(tokens')]

C11_Step ==
    LET lx == SkipWhitespace(lexer)
        end == IdentEnd(source, lx.index + 1)
        run == SubSeq(source, lx.index + 1, end - 1)
    IN
    (outcome = "running" /\ IsAsciiLetter(Peek(lx, 0))) =>
        /\ SpecBoundary(CharAt(source, end)) =>
              /\ outcome' = "running"
              /\ Len(tokens') = Len(tokens) + 1
              /\ lexer'.index = end - 1
        /\ outcome' = "running" =>
              IF \E k \in KeywordTable : k[1] = run
              THEN \E k \in KeywordTable :
                       /\ k[1] = run
                       /\ LastToken.token_type.kind = k[2]
                       /\ LastToken.token_type.value = k[3]
              ELSE /\ LastToken.token_type.kind = "Ident"
                   /\ LastToken.token_type.value = run

\* C11: keyword matching is on the whole maximal identifier run,
\* case-sensitively.  A run equal to if, else, for, return, break, continue
\* or in yields that keyword token, true and false yield Bool tokens, every
\* other run yields an Ident token carrying the full run.
C11_Keywords == [][C11_Step]_vars

\* "returning", "Return" and "if_" have each been tokenised to one Ident, and
\* "return" and "true" to a keyword and a Bool.
C11_Witness ==
    /\ outcome = "ok"
    /\ Len(result) = 1
    /\ \/ source = <<"r", "e", "t", "u", "r", "n", "i", "n", "g">>
             /\ result[1].token_type.kind = "Ident"
       \/ source = <<"i", "f", "_">> /\ result[1].token_type.kind = "Ident"
       \/ source = <<"r", "e", "t", "u", "r", "n">>
             /\ result[1].token_type.kind = "KWReturn"

WellFormed(ts) ==
    \A i \in DOMAIN ts : ts[i].token_type.kind # "EOF" /\ ts[i].length >= 1

\* C12: the returned sequence never contains an EOF token and every token
\* in it has length >= 1; the only token built with length 0 is the EOF
\* sentinel, which only ends the scanning loop.
C12_NoEofNoEmpty ==
    /\ WellFormed(tokens)
    /\ outcome = "ok" => WellFormed(result)
    /\ outcome = "running" =>
          LET r == GetToken(lexer) IN
          (r.tag = "Ok" /\ r.token.length = 0) => r.token.token_type.kind = "EOF"

\* A sequence of several tokens, one of them of length 1, has been returned
\* after the EOF sentinel ended the loop.
C12_Witness ==
    /\ outcome = "ok"
    /\ Len(result) >= 2
    /\ \E i \in DOMAIN result : result[i].length = 1

IsWhitespaceOnly(s) == \A i \in 1..Len(s) : s[i] \in {" ", "\t", "\r", "\n"}

\* C13: a source made only of space, tab, carriage return and newline
\* characters (the empty source too) tokenises to the empty sequence, with
\* no error.
C13_WhitespaceOnly ==
    IsWhitespaceOnly(source) =>
        /\ tokens = <<>>
        /\ outcome \in {"running", "ok"}
        /\ outcome = "ok" => result = <<>>
        /\ outcome = "running" => ENABLED TokeniseBreak

\* A source of the four whitespace characters has been tokenised.
C13_Witness ==
    /\ source = <<" ", "\t", "\r", "\n">>
    /\ outcome = "ok"
    /\ result = <<>>
    /\ lexer.line = 2

C15_Step ==
    LET lx == SkipWhitespace(lexer) IN
    (outcome = "running" /\ outcome' = "running") =>
        /\ LastToken.length = lexer'.index - lx.index
        /\ LastToken.column - LastToken.length = lx.column

\* C15: the start of a token is recoverable as column minus length.  For
\* every emitted token, length is the number of source characters the token
\* spans, and column - length is the 1-based column of its first character.
C15_StartColumn == [][C15_Step]_vars

C16_Step ==
    LET lx == SkipWhitespace(lexer)
        num == NumberEnd(source, lx.index + 2, 0)
        text == SubSeq(source, lx.index + 2, num.at - 1)
        float == \E i \in DOMAIN text : text[i] = "."
        parts == SplitAtDot(text, <<>>)
    IN
    (outcome = "running" /\ Peek(lx, 0) = "-") =>
        IF IsAsciiDigit(Peek(lx, 1))
        THEN /\ (/\ ~num.second_point
                 /\ SpecBoundary(CharAt(source, num.at))
                 /\ float \/ InI64Range(text)) => outcome' = "running"
             /\ outcome' = "running" =>
                   /\ Len(tokens') = Len(tokens) + 1
                   /\ lexer'.index = num.at - 1
                   /\ LastToken.token_type.kind = (IF float THEN "Float" ELSE "Int")
                   /\ LastToken.token_type.value =
                          IF float
                          THEN [neg |-> TRUE, int |-> StripLeadingZeros(parts[1]),
                                frac |-> StripTrailingZeros(parts[2])]
                          ELSE [neg |-> StripLeadingZeros(text) # <<"0">>,
                                mag |-> StripLeadingZeros(text)]
        ELSE /\ Pushed("OpSub", 1)
             /\ lexer'.index = lx.index + 1

\* C16: the minus dispatch depends only on the next character, never on the
\* token before.  At '-' with an ASCII digit next, one numeric token with
\* the negated value is emitted and no Sub token ("a-5" yields Ident(a),
\* Int(-5)); with anything else next, or the end of input, exactly one Sub
\* token of length 1 is emitted and one character is consumed.
C16_MinusDispatch ==
    /\ [][C16_Step]_vars
    /\ [](source = <<"a", "-", "5">> /\ outcome # "running" =>
              /\ outcome = "ok"
              /\ Kinds(result) = <<"Ident", "Int">>
              /\ result[2].token_type.value = [neg |-> TRUE, mag |-> <<"5">>])

\* A '-' right after an identifier has been folded into the literal.
C16_Witness ==
    /\ source = <<"a", "-", "5">>
    /\ outcome = "ok"
    /\ Kinds(result) = <<"Ident", "Int">>
    /\ result[2].token_type.value.neg

C17_Step ==
    LET lx == SkipWhitespace(lexer)
        c == Peek(lx, 0)
        first == IF c = "-" THEN lx.index + 2 ELSE lx.index + 1
        num == NumberEnd(source, first, 0)
        text == SubSeq(source, first, num.at - 1)
        float == \E i \in DOMAIN text : text[i] = "."
    IN
    (/\ outcome = "running"
     /\ IsAsciiDigit(CharAt(source, first))
     /\ c = "-" \/ IsAsciiDigit(c)
     /\ ~num.second_point
     /\ CharAt(source, num.at) = "." /\ CharAt(source, num.at + 1) = "."
     /\ float \/ InI64Range(text)) =>
        /\ Pushed(IF float THEN "Float" ELSE "Int", Len(text))
        /\ lexer'.index = num.at - 1
        /\ LET r == GetToken(lexer') IN
           /\ r.tag = "Ok"
           /\ r.token.token_type.kind = "Range"
           /\ r.token.index = num.at + 1

\* C17: a numeric literal never absorbs the first dot of a range operator.
\* A digit run (with or without one earlier decimal point) followed by ".."
\* ends before the dots and the next token is Range: "1..5" yields Int(1),
\* Range, Int(5) and "1.5..2" yields Float(1.5), Range, Int(2).
C17_RangeAfterNumber ==
    /\ [][C17_Step]_vars
    /\ [](source = <<"1", ".", ".", "5">> /\ outcome # "running" =>
              /\ outcome = "ok"
              /\ Kinds(result) = <<"Int", "Range", "Int">>
              /\ result[1].token_type.value = [neg |-> FALSE, mag |-> <<"1">>]
              /\ result[3].token_type.value = [neg |-> FALSE, mag |-> <<"5">>])
    /\ [](source = <<"1", ".", "5", ".", ".", "2">> /\ outcome # "running" =>
              /\ outcome = "ok"
              /\ Kinds(result) = <<"Float", "Range", "Int">>
              /\ result[1].token_type.value =
                     [neg |-> FALSE, int |-> <<"1">>, frac |-> <<"5">>]
              /\ result[3].token_type.value = [neg |-> FALSE, mag |-> <<"2">>])

\* "1.5..2" has been tokenised to a Float, a Range and an Int.
C17_Witness ==
    /\ source = <<"1", ".", "5", ".", ".", "2">>
    /\ outcome = "ok"
    /\ Kinds(result) = <<"Float", "Range", "Int">>

\* A character that starts no token: not whitespace, no operator or
\* punctuation character, no ASCII digit or letter, no double quote.
StartsNoToken(c) ==
    /\ c # None
    /\ c \notin {" ", "\t", "\r", "\n", "\""}
    /\ c \notin OperatorChars \cup {"-"}
    /\ ~IsAsciiDigit(c)
    /\ ~IsAsciiLetter(c)

C18_Step ==
    LET lx == SkipWhitespace(lexer)
        c == Peek(lx, 0)
    IN
    (/\ outcome = "running"
     /\ \/ c \in {"&", "|"} /\ Peek(lx, 1) # c
        \/ StartsNoToken(c)) =>
        /\ outcome' = "err"
        /\ result'.message = Message("Unexpected character: ", c)

\* C18: every unexpected-character error points at the character it names.
\* A token that would start with '&' not followed by '&', with '|' not
\* followed by '|', or with a character that starts no token, fails with the
\* unexpected-character error naming that character, and the source
\* character at the error's index is that character.
C18_UnexpectedCharacter ==
    /\ [][C18_Step]_vars
    /\ []((outcome = "err" /\ result.message.text = "Unexpected character: ") =>
              CharAt(source, result.index + 1) = result.message.ch)

\* C19: building an error never reads outside the stored line table.
\* Whenever Lexer::error is called, 1 <= line <= the number of lines that
\* Lexer::new computed from the source.
C19_LineInTable ==
    /\ outcome = "panic" => result # "index out of bounds"
    /\ outcome = "err" => (1 <= result.line /\ result.line <= Len(lexer.lines))
    /\ outcome = "running" =>
          LET r == GetToken(lexer) IN
          r.tag = "Err" => (1 <= r.lx.line /\ r.lx.line <= Len(r.lx.lines))

\* An error has been built on the last line of a source whose first line is
\* blank.
C19_Witness ==
    /\ outcome = "err"
    /\ result.line >= 2
    /\ result.line = Len(lexer.lines)
    /\ lexer.lines[1] = <<>>

====
